---- MODULE Spec2Model ----
(***************************************************************************)
(* A model of the CSP engine of csp_solver.py: the constraint graph (class *)
(* CSP: variables, domains, constraints), the AC-3 pass (inference and     *)
(* revise) and the backtracking search (backtracking_search, backtrack,    *)
(* select_unassigned_variable).                                            *)
(*                                                                         *)
(* The recursion of backtrack is an explicit stack of activations; one     *)
(* action is one iteration of the while loop of inference, one entry of    *)
(* backtrack, or one iteration of its for loop.                            *)
(***************************************************************************)
EXTENDS Integers, Sequences, FiniteSets, TLC

VARIABLES
    variables,                \* self.variables: the list of names
    domains,                  \* self.domains: name -> list of values
    constraints,              \* self.constraints: name -> (name -> table)
    backtrack_count,          \* self.backtrack_count
    backtrack_failure_count,  \* self.backtrack_failure_count
    pc,                       \* where the running call is
    site,                     \* the call site the running inference returns to
    assignment,               \* the dict the running inference/backtrack works on
    shared,                   \* TRUE iff that dict is the object it was copied from
    queue,                    \* the queue of the running inference
    stack,                    \* the activations of backtrack that are in their for loop
    inferred,                 \* the value the last inference returned
    result                    \* the value backtracking_search returned

graph == <<variables, domains, constraints>>
counters == <<backtrack_count, backtrack_failure_count>>
vars == <<variables, domains, constraints, backtrack_count, backtrack_failure_count,
          pc, site, assignment, shared, queue, stack, inferred, result>>

(***************************************************************************)
(* Bounds of the model.                                                    *)
(***************************************************************************)
\* Values are 1..MaxVal; a domain is the list <<1, .., k>> for some k <= MaxVal.
MaxVal == 2
\* The number of add_variable calls of one construction.
MaxAdds == 3
\* The longest initial queue handed to a direct call of inference.
MaxQueue == 4

\* The variable names (opaque identifiers; non-empty strings as in the builders).
Names == {"A", "B", "C"}
NameOrder == <<"A", "B", "C">>
Val == 1 .. MaxVal
DomainChoices == {[k \in 1 .. n |-> k] : n \in 0 .. MaxVal}
\* A graph a search starts from has at most MaxTotal values in all its
\* domains together.
MaxTotal == 2 * Cardinality(Names)

\* Python's None, as a variable name that is no name and as a result.
None == "None"

Range(s) == {s[k] : k \in 1 .. Len(s)}

RECURSIVE FirstOccurrences(_)
\* The keys of a dict in insertion order, for a dict whose keys were set in
\* the order of the list s: a key set again keeps its first position.
FirstOccurrences(s) ==
    IF s = <<>> THEN <<>>
    ELSE LET init == FirstOccurrences(SubSeq(s, 1, Len(s) - 1))
             last == s[Len(s)]
         IN  IF last \in Range(init) THEN init ELSE Append(init, last)

\* for ... in self.constraints / self.domains / assignment.items(): all three
\* dicts get their keys in add_variable, in the same order.
KeyOrder == FirstOccurrences(variables)

\* The empty inner dict self.constraints[name] = {} of add_variable.
EmptyDict == [keys |-> <<>>, table |-> <<>>]

(***************************************************************************)
(* The queries of the graph.                                               *)
(***************************************************************************)
\* itertools.product(a, b), as the set of its pairs.
get_all_possible_pairs(a, b) ==
    {<<a[x], b[y]>> : x \in 1 .. Len(a), y \in 1 .. Len(b)}

RECURSIVE ArcsFrom(_, _)
ArcsFrom(order, c) ==
    IF order = <<>> THEN <<>>
    ELSE LET i == Head(order)
         IN  [k \in 1 .. Len(c[i].keys) |-> <<i, c[i].keys[k]>>]
                 \o ArcsFrom(Tail(order), c)

\* [(i, j) for i in self.constraints for j in self.constraints[i]]
get_all_arcs == ArcsFrom(KeyOrder, constraints)

\* An off-by-direction variant: the arcs leaving var.
get_all_neighboring_arcs_leaving(var) ==
    [k \in 1 .. Len(constraints[var].keys) |-> <<var, constraints[var].keys[k]>>]

\* [(i, var) for i in self.constraints[var]]
get_all_neighboring_arcs(var) ==
    [k \in 1 .. Len(constraints[var].keys) |-> <<constraints[var].keys[k], var>>]

\* table (i, j) exists
HasTable(i, j) == i \in DOMAIN constraints /\ j \in Range(constraints[i].keys)

(***************************************************************************)
(* AC-3: revise and inference.                                             *)
(***************************************************************************)
\* A support test that looks at the first value of j only.
Supported_by_first(x, legal_values_j, table) ==
    legal_values_j # <<>> /\ <<x, legal_values_j[1]>> \in table

\* any(pair in constraints for pair in product([x], legal_values_j))
Supported(x, legal_values_j, table) ==
    \E k \in 1 .. Len(legal_values_j) : <<x, legal_values_j[k]>> \in table

RECURSIVE RemoveFirst(_, _)
\* list.remove(x): the list without the first occurrence of x.
RemoveFirst(l, x) ==
    IF l = <<>> THEN <<>>
    ELSE IF Head(l) = x THEN Tail(l)
    ELSE <<Head(l)>> \o RemoveFirst(Tail(l), x)

RECURSIVE ReviseLoop(_, _, _, _, _)
\* The for loop of revise over the list legal_values_i, which the loop body
\* shortens while the list iterator keeps its position: n is the position
\* (from 1) the iterator reads next.  After the removal of the value at
\* position n the iterator reads position n + 1 of the shortened list.
ReviseLoop(legal_values_i, n, revised, legal_values_j, table) ==
    IF n > Len(legal_values_i)
    THEN [legal_values_i |-> legal_values_i, revised |-> revised]
    ELSE LET x == legal_values_i[n]
         IN  IF Supported(x, legal_values_j, table)
             THEN ReviseLoop(legal_values_i, n + 1, revised, legal_values_j, table)
             ELSE LET shorter == RemoveFirst(legal_values_i, x)
                  IN  IF shorter = <<>>
                      THEN [legal_values_i |-> shorter, revised |-> TRUE]
                      ELSE ReviseLoop(shorter, n + 1, TRUE, legal_values_j, table)

\* A revise that starts from the static domain of i, not from assignment[i].
revise_from_static(asg, i, j) ==
    ReviseLoop(domains[i], 1, FALSE, asg[j], constraints[i].table[j])

\* A revise that looks the pairs up in the table of the arc (j, i).
revise_other_table(asg, i, j) ==
    ReviseLoop(asg[i], 1, FALSE, asg[j], constraints[j].table[i])

\* revise(assignment, i, j): the list assignment[i] after the call, and the
\* value returned.
revise(asg, i, j) ==
    ReviseLoop(asg[i], 1, FALSE, asg[j], constraints[i].table[j])

RECURSIVE Enqueue_twice(_, _, _, _)
\* An enqueueing that does not look whether the arc is in the queue.
Enqueue_twice(q, arcs, x_i, x_j) ==
    IF arcs = <<>> THEN q
    ELSE LET x_k == Head(arcs)[1]
             q2  == IF x_k = x_j THEN q ELSE Append(q, <<x_k, x_i>>)
         IN  Enqueue_twice(q2, Tail(arcs), x_i, x_j)

RECURSIVE Enqueue(_, _, _, _)
\* for x_k, _ in self.get_all_neighboring_arcs(x_i): skip x_j, skip an arc
\* that is in the queue, append the others.
Enqueue(q, arcs, x_i, x_j) ==
    IF arcs = <<>> THEN q
    ELSE LET x_k == Head(arcs)[1]
             q2  == IF x_k = x_j THEN q
                    ELSE IF <<x_k, x_i>> \in Range(q) THEN q
                    ELSE Append(q, <<x_k, x_i>>)
         IN  Enqueue(q2, Tail(arcs), x_i, x_j)

\* One iteration of the while loop of inference on a non-empty queue: the
\* dict and the queue after it, and how the iteration ends: the loop goes on
\* ("continue"), inference returns False ("False"), or the look-up
\* self.constraints[i][j] of revise raises ("KeyError").
inference_iteration(asg, q) ==
    LET x_i  == Head(q)[1]
        x_j  == Head(q)[2]
        rest == Tail(q)
    IN  IF ~HasTable(x_i, x_j)
        THEN [assignment |-> asg, queue |-> rest, outcome |-> "KeyError"]
        ELSE
        LET r    == revise(asg, x_i, x_j)
            asg2 == [asg EXCEPT ![x_i] = r.legal_values_i]
            \* d_i = self.domains[x_i] (the dict asg itself when asg is self.domains)
            d_i  == IF shared /\ site = "search" THEN asg2[x_i] ELSE domains[x_i]
        IN  IF ~r.revised
            THEN [assignment |-> asg2, queue |-> rest, outcome |-> "continue"]
            ELSE IF d_i = <<>>
            THEN [assignment |-> asg2, queue |-> rest, outcome |-> "False"]
            ELSE [assignment |-> asg2,
                  queue |-> Enqueue(rest, get_all_neighboring_arcs(x_i), x_i, x_j),
                  outcome |-> "continue"]

RECURSIVE inference_run(_, _)
\* inference(assignment, queue) run to its return: the dict it leaves and
\* the value it returns.
inference_run(asg, q) ==
    IF q = <<>> THEN [assignment |-> asg, value |-> "True"]
    ELSE LET s == inference_iteration(asg, q)
         IN  IF s.outcome = "continue" THEN inference_run(s.assignment, s.queue)
             ELSE [assignment |-> s.assignment, value |-> s.outcome]

(***************************************************************************)
(* The search.                                                             *)
(***************************************************************************)
RECURSIVE MinBy(_, _, _)
\* min(unassigned, key=...): the first element of the list with the least key.
MinBy(l, best, asg) ==
    IF l = <<>> THEN best
    ELSE MinBy(Tail(l),
               IF Len(asg[Head(l)]) < Len(asg[best]) THEN Head(l) ELSE best,
               asg)

\* A selection that never finds a variable.
select_nothing(asg) == None

\* A selection without the minimum: the first variable with more than one
\* value.
select_first_unassigned(asg) ==
    LET unassigned == SelectSeq(KeyOrder, LAMBDA v : Len(asg[v]) > 1)
    IN  IF unassigned = <<>> THEN None ELSE Head(unassigned)

\* select_unassigned_variable(assignment)
select_unassigned_variable(asg) ==
    LET unassigned == SelectSeq(KeyOrder, LAMBDA v : Len(asg[v]) > 1)
    IN  IF unassigned = <<>> THEN None
        ELSE MinBy(Tail(unassigned), Head(unassigned), asg)

\* A copy that is no copy: the same object.
no_copy(d) == [dict |-> d, shared |-> TRUE]

\* copy.deepcopy(self.domains): an equal dict that shares nothing.
deepcopy(d) == [dict |-> d, shared |-> FALSE]

\* any(not values for values in assignment.values())
AnyEmpty(asg) == \E v \in DOMAIN asg : asg[v] = <<>>

\* The two kinds of value backtrack returns.
Failure == [kind |-> "None", value |-> <<>>]
Solution(asg) == [kind |-> "assignment", value |-> asg]
Running == [kind |-> "running", value |-> <<>>]

\* A leaf test that takes every leaf for a solution.
leaf_always_solved(asg) == Solution(asg)

\* The leaf of backtrack (variable is None): None when some list is empty,
\* else the assignment.
leaf(asg) == IF AnyEmpty(asg) THEN Failure ELSE Solution(asg)

\* Only the first candidate value is tried.
candidates_first_only(asg, variable) == SubSeq(asg[variable], 1, 1)

\* for value in assignment[variable]: the values the for loop goes through.
candidates(asg, variable) == asg[variable]

(***************************************************************************)
(* The graphs a search starts from: every variable of Names with a domain  *)
(* <<1..k>>, and for every pair of variables either no constraint or a     *)
(* table and its mirror, added in the order of NameOrder.                  *)
(***************************************************************************)
Position(n) == CHOOSE k \in 1 .. Len(NameOrder) : NameOrder[k] = n
Edges == {e \in Names \X Names : Position(e[1]) < Position(e[2])}
Swap(t) == {<<p[2], p[1]>> : p \in t}

MirroredConstraints(present, tab) ==
    [i \in Names |->
        LET ks == SelectSeq(NameOrder,
                      LAMBDA j : <<i, j>> \in present \/ <<j, i>> \in present)
        IN  [keys  |-> ks,
             table |-> [j \in Range(ks) |->
                          IF <<i, j>> \in present THEN tab[<<i, j>>]
                          ELSE Swap(tab[<<j, i>>])]]]

RECURSIVE SumLen(_, _)
SumLen(d, order) ==
    IF order = <<>> THEN 0 ELSE Len(d[Head(order)]) + SumLen(d, Tail(order))

\* What a pair of variables can get: no constraint, or a table of pairs of
\* their values.
TableChoices(e) ==
    {[present |-> FALSE, pairs |-> {}]} \cup
    {[present |-> TRUE, pairs |-> t] :
        t \in SUBSET get_all_possible_pairs(domains[e[1]], domains[e[2]])}

InitGraph ==
    /\ variables = NameOrder
    /\ domains \in [Names -> DomainChoices]
    /\ SumLen(domains, NameOrder) <= MaxTotal
    /\ \E c1 \in TableChoices(<<NameOrder[1], NameOrder[2]>>) :
       \E c2 \in TableChoices(<<NameOrder[1], NameOrder[3]>>) :
       \E c3 \in TableChoices(<<NameOrder[2], NameOrder[3]>>) :
          LET choice == (<<NameOrder[1], NameOrder[2]>> :> c1)
                     @@ (<<NameOrder[1], NameOrder[3]>> :> c2)
                     @@ (<<NameOrder[2], NameOrder[3]>> :> c3)
          IN  constraints =
                  MirroredConstraints({e \in Edges : choice[e].present},
                                      [e \in Edges |-> choice[e].pairs])

InitIdle ==
    /\ backtrack_count = 0
    /\ backtrack_failure_count = 0
    /\ site = "none"
    /\ assignment = <<>>
    /\ shared = FALSE
    /\ queue = <<>>
    /\ stack = <<>>
    /\ inferred = "none"
    /\ result = Running

Init ==
    /\ InitGraph
    /\ InitIdle
    /\ pc = "idle"

(***************************************************************************)
(* The steps of backtracking_search.                                       *)
(***************************************************************************)
\* backtracking_search up to its call of inference.
backtracking_search ==
    /\ pc = "idle"
    /\ LET c == deepcopy(domains)
       IN  /\ assignment' = c.dict
           /\ shared' = c.shared
    /\ queue' = get_all_arcs
    /\ site' = "search"
    /\ pc' = "inference"
    /\ UNCHANGED <<graph, counters, stack, inferred, result>>

\* The top activation goes to the next value of its for loop.
NextValue(st) ==
    [st EXCEPT ![Len(st)].index = @ + 1]

\* inference returns b to the site that called it.
InferenceReturns(b, st) ==
    /\ inferred' = IF b THEN "True" ELSE "False"
    /\ CASE site = "search" ->
              \* the value is not looked at; backtrack(assignment) is next
              /\ pc' = "backtrack"
              /\ stack' = st
         [] site = "branch" ->
              IF b THEN /\ pc' = "backtrack"
                        /\ stack' = st
                   ELSE /\ pc' = "loop"
                        /\ stack' = NextValue(st)
         [] OTHER ->
              /\ pc' = "returned"
              /\ stack' = st

\* One iteration of "while queue" in inference.
inference ==
    /\ pc = "inference"
    /\ queue # <<>>
    /\ LET s  == inference_iteration(assignment, queue)
           \* the lists revise shortens are those of the dict copied from
           \* when the copy shares them
           st == IF shared /\ site = "branch"
                 THEN [stack EXCEPT ![Len(stack)].assignment = s.assignment]
                 ELSE stack
       IN  /\ assignment' = s.assignment
           /\ queue' = s.queue
           /\ domains' = IF shared /\ site = "search" THEN s.assignment ELSE domains
           /\ CASE s.outcome = "False" -> InferenceReturns(FALSE, st)
                [] s.outcome = "KeyError" ->
                     \* the exception leaves every caller
                     /\ pc' = "raised"
                     /\ stack' = st
                     /\ UNCHANGED inferred
                [] OTHER ->
                     /\ stack' = st
                     /\ UNCHANGED <<pc, inferred>>
    /\ UNCHANGED <<variables, constraints, counters, site, shared, result>>

\* "while queue" finds the queue empty: return True.
inference_done ==
    /\ pc = "inference"
    /\ queue = <<>>
    /\ InferenceReturns(TRUE, stack)
    /\ UNCHANGED <<graph, counters, site, assignment, shared, queue, result>>

\* backtrack returns r: a solution goes up through every caller
\* ("if result: return result"; a dict with a key is true), None makes the
\* caller go on with its for loop.
BacktrackReturns(r, st) ==
    IF st = <<>> \/ r.kind = "assignment"
    THEN /\ result' = r
         /\ stack' = <<>>
         /\ pc' = "done"
    ELSE /\ result' = result
         /\ stack' = NextValue(st)
         /\ pc' = "loop"

\* backtrack(assignment) when select_unassigned_variable finds no variable.
backtrack_leaf ==
    /\ pc = "backtrack"
    /\ select_unassigned_variable(assignment) = None
    /\ backtrack_count' = backtrack_count + 1
    /\ LET r == leaf(assignment)
       IN  /\ backtrack_failure_count' =
                 IF r.kind = "None" THEN backtrack_failure_count + 1
                 ELSE backtrack_failure_count
           /\ BacktrackReturns(r, stack)
    /\ UNCHANGED <<graph, site, assignment, shared, queue, inferred>>

\* backtrack_select without line 126: the activation is not counted.
backtrack_select_uncounted ==
    /\ pc = "backtrack"
    /\ LET variable == select_unassigned_variable(assignment)
       IN  /\ variable # None
           /\ stack' = Append(stack, [assignment |-> assignment,
                                      variable   |-> variable,
                                      index      |-> 1])
    /\ pc' = "loop"
    /\ UNCHANGED <<graph, counters, site, assignment, shared,
                   queue, inferred, result>>

\* backtrack(assignment) when a variable is selected: the for loop starts.
backtrack_select ==
    /\ pc = "backtrack"
    /\ LET variable == select_unassigned_variable(assignment)
       IN  /\ variable # None
           /\ stack' = Append(stack, [assignment |-> assignment,
                                      variable   |-> variable,
                                      index      |-> 1])
    /\ backtrack_count' = backtrack_count + 1
    /\ pc' = "loop"
    /\ UNCHANGED <<graph, backtrack_failure_count, site, assignment, shared,
                   queue, inferred, result>>

\* A forcing that leaves the list of the variable as it is.
force_nothing(asg, variable, value) == asg

\* assignment_copy[variable] = [value]
force(asg, variable, value) == [asg EXCEPT ![variable] = <<value>>]

\* A copy of the assignment that is the assignment itself.
assignment_alias(asg) == [dict |-> asg, shared |-> TRUE]

\* assignment_copy = copy.deepcopy(assignment): an equal dict that shares
\* nothing with the assignment of the activation.
assignment_copy(asg) == [dict |-> asg, shared |-> FALSE]

\* One iteration of the for loop up to its call of inference.
backtrack_try ==
    /\ pc = "loop"
    /\ LET top    == stack[Len(stack)]
           values == candidates(top.assignment, top.variable)
       IN  /\ top.index <= Len(values)
           /\ LET c      == assignment_copy(top.assignment)
                  forced == force(c.dict, top.variable, values[top.index])
              IN  /\ assignment' = forced
                  /\ shared' = c.shared
                  /\ stack' = IF c.shared
                              THEN [stack EXCEPT ![Len(stack)].assignment = forced]
                              ELSE stack
           /\ queue' = get_all_neighboring_arcs(top.variable)
    /\ site' = "branch"
    /\ pc' = "inference"
    /\ UNCHANGED <<graph, counters, inferred, result>>

\* The for loop is over: the activation returns None.
backtrack_exhausted ==
    /\ pc = "loop"
    /\ LET top    == stack[Len(stack)]
           values == candidates(top.assignment, top.variable)
       IN  top.index > Len(values)
    /\ backtrack_failure_count' = backtrack_failure_count + 1
    /\ BacktrackReturns(Failure, SubSeq(stack, 1, Len(stack) - 1))
    /\ UNCHANGED <<graph, backtrack_count, site, assignment, shared, queue, inferred>>

Next ==
    \/ backtracking_search
    \/ inference
    \/ inference_done
    \/ backtrack_leaf
    \/ backtrack_select
    \/ backtrack_try
    \/ backtrack_exhausted

Spec == Init /\ [][Next]_vars

\* The searches on a graph that has a variable with an empty static domain.
\* The program is one thread that runs until it returns: a step that can be
\* taken is taken.
InitEmptyDomain == Init /\ AnyEmpty(domains)
SpecEmptyDomain == InitEmptyDomain /\ [][Next]_vars /\ WF_vars(Next)

(***************************************************************************)
(* A direct call inference(assignment, queue) on a graph, with the static  *)
(* domains as the assignment and the arcs of the graph, in any order, as   *)
(* the queue.                                                              *)
(***************************************************************************)
Orderings(s) ==
    {[k \in 1 .. Len(s) |-> s[p[k]]] : p \in Permutations(1 .. Len(s))}

InitInference ==
    /\ InitGraph
    /\ Len(get_all_arcs) <= MaxQueue
    /\ backtrack_count = 0
    /\ backtrack_failure_count = 0
    /\ site = "direct"
    /\ assignment = domains
    /\ shared = FALSE
    /\ queue \in Orderings(get_all_arcs)
    /\ stack = <<>>
    /\ inferred = "none"
    /\ result = Running
    /\ pc = "inference"

NextInference ==
    \/ inference
    \/ inference_done

SpecInference == InitInference /\ [][NextInference]_vars

(***************************************************************************)
(* The construction of a graph: add_variable and add_constraint_one_way.   *)
(***************************************************************************)
\* The filter function of the builders: lambda x, y: x != y.
FilterFunctions == {"neq"}
filter_function(f, x, y) == f = "neq" /\ x # y

InitBuild ==
    /\ variables = <<>>
    /\ domains = <<>>
    /\ constraints = <<>>
    /\ InitIdle
    /\ pc = "build"

add_variable(name, domain) ==
    /\ pc = "build"
    /\ Len(variables) < MaxAdds
    /\ variables' = Append(variables, name)
    /\ domains' = [n \in DOMAIN domains \cup {name} |->
                      IF n = name THEN domain ELSE domains[n]]
    /\ constraints' = [n \in DOMAIN constraints \cup {name} |->
                      IF n = name THEN EmptyDict ELSE constraints[n]]
    /\ UNCHANGED <<counters, pc, site, assignment, shared, queue, stack,
                   inferred, result>>

\* add_constraint_one_way(i, j, filter_function) for two registered
\* variables (an unregistered one raises KeyError before any assignment).
add_constraint_one_way(i, j, f) ==
    /\ pc = "build"
    /\ i \in DOMAIN constraints
    /\ j \in DOMAIN domains
    /\ LET c     == constraints[i]
           fresh == j \notin Range(c.keys)
           pairs == IF fresh
                    THEN get_all_possible_pairs(domains[i], domains[j])
                    ELSE c.table[j]
           kept  == {value_pair \in pairs :
                        filter_function(f, value_pair[1], value_pair[2])}
           ks    == IF fresh THEN Append(c.keys, j) ELSE c.keys
       IN  constraints' = [constraints EXCEPT ![i] =
               [keys  |-> ks,
                table |-> [k \in Range(ks) |-> IF k = j THEN kept ELSE c.table[k]]]]
    /\ UNCHANGED <<variables, domains, counters, pc, site, assignment, shared,
                   queue, stack, inferred, result>>

NextBuild ==
    \/ \E name \in Names, domain \in DomainChoices : add_variable(name, domain)
    \/ \E i \in Names : \E j \in Names \ {i} : \E f \in FilterFunctions :
          add_constraint_one_way(i, j, f)

SpecBuild == InitBuild /\ [][NextBuild]_vars

(***************************************************************************)
(* Several calls of backtracking_search on the same CSP object: the        *)
(* counters are fields of the object and are never reset.                  *)
(***************************************************************************)
\* Another call is made only while backtrack_count is below MaxCount.
MaxCount == 3

\* backtracking_search called again after a call has returned.
backtracking_search_again ==
    /\ pc = "done"
    /\ backtrack_count < MaxCount
    /\ LET c == deepcopy(domains)
       IN  /\ assignment' = c.dict
           /\ shared' = c.shared
    /\ queue' = get_all_arcs
    /\ site' = "search"
    /\ pc' = "inference"
    /\ inferred' = "none"
    /\ result' = Running
    /\ UNCHANGED <<graph, counters, stack>>

NextRepeat ==
    \/ Next
    \/ backtracking_search_again

SpecRepeat == Init /\ [][NextRepeat]_vars


(***************************************************************************)
(* The searches on the graphs where every variable has two values or more, *)
(* run to their end: these are the searches with the deepest recursion.    *)
(***************************************************************************)
InitMultiValued ==
    /\ Init
    /\ \A v \in Names : Len(domains[v]) >= 2

SpecMultiValued == InitMultiValued /\ [][Next]_vars /\ WF_vars(Next)


(***************************************************************************)
(* select_unassigned_variable called on its own: the variables added in    *)
(* any order, every list with up to MaxLen values, no constraints.         *)
(***************************************************************************)
MaxLen == 3

\* The value select_call leaves in result.
Selected(v) == [kind |-> "selected", value |-> v]

InitSelect ==
    /\ variables \in Orderings(NameOrder)
    /\ domains \in [Names -> {[k \in 1 .. n |-> k] : n \in 0 .. MaxLen}]
    /\ constraints = [n \in Names |-> EmptyDict]
    /\ InitIdle
    /\ pc = "select"

\* variable = self.select_unassigned_variable(assignment), with the
\* domains as the assignment.
select_call ==
    /\ pc = "select"
    /\ assignment' = domains
    /\ result' = Selected(select_unassigned_variable(domains))
    /\ pc' = "selected"
    /\ UNCHANGED <<graph, counters, site, shared, queue, stack, inferred>>

NextSelect == select_call

SpecSelect == InitSelect /\ [][NextSelect]_vars


(***************************************************************************)
(* Properties.                                                             *)
(***************************************************************************)
\* The arcs (i, j) that have a constraint table.
TableArcs == {a \in (DOMAIN constraints) \X (DOMAIN constraints) : HasTable(a[1], a[2])}

\* The mirror invariant: table (j, i) exists with table (i, j) and is it
\* with the components swapped.
Mirrored ==
    \A a \in TableArcs :
        /\ HasTable(a[2], a[1])
        /\ constraints[a[2]].table[a[1]] = Swap(constraints[a[1]].table[a[2]])

\* The total assignments (one value per variable from its static domain)
\* that satisfy every constraint table.
SatisfyingAssignments ==
    {t \in [DOMAIN domains -> Val] :
        /\ \A v \in DOMAIN domains : t[v] \in Range(domains[v])
        /\ \A a \in TableArcs : <<t[a[1]], t[a[2]]>> \in constraints[a[1]].table[a[2]]}

\* Every value of i in asg has a supporting value of j in asg, on every arc.
ArcConsistent(asg) ==
    \A a \in TableArcs :
        \A x \in Range(asg[a[1]]) :
            Supported(x, asg[a[2]], constraints[a[1]].table[a[2]])

RECURSIVE IsSubsequence(_, _)
\* a is b with some elements removed.
IsSubsequence(a, b) ==
    IF a = <<>> THEN TRUE
    ELSE IF b = <<>> THEN FALSE
    ELSE IF Head(a) = Head(b) THEN IsSubsequence(Tail(a), Tail(b))
    ELSE IsSubsequence(a, Tail(b))

\* Every list of dict a is a subsequence of the list of dict b.
Within(a, b) == \A v \in DOMAIN b : IsSubsequence(a[v], b[v])

Returned == pc = "done"
ReturnedAssignment == pc = "done" /\ result.kind = "assignment"
ReturnedNone == pc = "done" /\ result.kind = "None"

\* C1: on a mirrored graph, a returned assignment has, for every arc (i, j)
\* with a table, the pair (value of i, value of j) in table (i, j).
C1_ReturnedValuesSatisfyTables ==
    (Mirrored /\ ReturnedAssignment) =>
        \A a \in TableArcs :
            \A x \in Range(result.value[a[1]]), y \in Range(result.value[a[2]]) :
                <<x, y>> \in constraints[a[1]].table[a[2]]

\* C2: on a mirrored graph that no total assignment satisfies,
\* backtracking_search returns None.
C2_UnsatisfiableReturnsNone ==
    (Mirrored /\ Returned /\ SatisfyingAssignments = {}) => result.kind = "None"

\* C3: on a mirrored graph that some total assignment satisfies,
\* backtracking_search returns an assignment, not None.
C3_SatisfiableReturnsAssignment ==
    (Mirrored /\ Returned /\ SatisfyingAssignments # {}) => result.kind = "assignment"

\* A satisfiable graph was solved after a candidate value had failed.
C3_Witness ==
    /\ Mirrored
    /\ ReturnedAssignment
    /\ SatisfyingAssignments # {}
    /\ backtrack_failure_count > 0

\* The inference that backtracking_search starts with the queue
\* get_all_arcs() has returned.
FirstInferenceReturned ==
    site = "search" /\ pc = "backtrack" /\ inferred # "none"

\* C4: when the inference started with all arcs of the graph returns, every
\* value left in i's working domain has a supporting value in j's, for
\* every arc (i, j) with a table.
C4_InferenceLeavesArcConsistency ==
    FirstInferenceReturned => ArcConsistent(assignment)

\* C5: the working domains left by inference on the arcs of the graph are
\* the same for every order of the arcs in the initial queue: they are the
\* ones left for the order of get_all_arcs().
C5_FixedPointIndependentOfOrder ==
    pc = "returned" =>
        assignment = inference_run(domains, get_all_arcs).assignment

\* The working domains of the search: every dict of an activation, and the
\* dict inference or backtrack is working on.
ChainShrinks ==
    /\ \A k \in 1 .. Len(stack) : Within(stack[k].assignment, domains)
    /\ \A k \in 1 .. Len(stack) - 1 :
          Within(stack[k + 1].assignment, stack[k].assignment)
    /\ pc \in {"inference", "backtrack", "loop"} =>
          /\ Within(assignment, domains)
          /\ stack # <<>> => Within(assignment, stack[Len(stack)].assignment)

\* C6: every working domain is a subsequence of the static domain, each
\* activation's working domains are subsequences of its caller's, and a
\* step of inference or a call of backtrack never gives a working domain a
\* value it did not have.
C6_DomainsOnlyShrink ==
    /\ [] ChainShrinks
    /\ [][(pc = "inference" /\ pc' \in {"inference", "backtrack"})
             => Within(assignment', assignment)]_vars
    /\ [][(pc = "loop" /\ pc' = "inference")
             => Within(assignment', stack[Len(stack)].assignment)]_vars

\* A second-level activation is trying a value after inference removed one.
C6_Witness ==
    /\ Len(stack) >= 2
    /\ pc = "inference"
    /\ \E v \in DOMAIN assignment :
          Len(assignment[v]) < Len(stack[Len(stack)].assignment[v])
    /\ stack[2].assignment # stack[1].assignment

\* C7: no step of backtracking_search changes the variable list, a static
\* domain or a constraint table.
C7_GraphUnchanged == [][graph' = graph]_vars

\* The search has returned after inference removed values.
C7_Witness ==
    /\ Returned
    /\ backtrack_count > 1
    /\ assignment # domains

\* C8: with an empty static domain on a mirrored graph, the search raises
\* nothing, returns, and returns None.
C8_EmptyDomainReturnsNone ==
    /\ [] ((Mirrored /\ AnyEmpty(domains)) =>
              /\ pc # "raised"
              /\ Returned => result.kind = "None")
    /\ (Mirrored /\ AnyEmpty(domains)) => <> Returned

\* None was returned for a graph with an empty static domain, after
\* the search went through several activations.
C8_Witness ==
    /\ Mirrored
    /\ AnyEmpty(domains)
    /\ ReturnedNone
    /\ backtrack_count > 1

C10_NeighboringArcsAreIncomingArcs ==
    Mirrored =>
        \A v \in DOMAIN constraints :
            LET arcs == get_all_neighboring_arcs(v)
            IN  /\ Range(arcs) = {a \in TableArcs : a[2] = v}
                /\ Cardinality(Range(arcs)) = Len(arcs)

\* A mirrored graph in which a variable has two neighbours.
C10_Witness ==
    /\ Mirrored
    /\ \E v \in DOMAIN constraints : Len(get_all_neighboring_arcs(v)) >= 2

\* C11: once a call of backtracking_search has returned, backtrack_count is
\* at least 1; backtrack_failure_count is always between 0 and
\* backtrack_count; and no step of any call decreases a counter.
C11_CountersConsistent ==
    /\ [] (Returned => backtrack_count >= 1)
    /\ [] (0 <= backtrack_failure_count /\ backtrack_failure_count <= backtrack_count)
    /\ [][/\ backtrack_count' >= backtrack_count
          /\ backtrack_failure_count' >= backtrack_failure_count]_vars

\* A second call has returned: no variable can be selected in this graph,
\* so each call is one activation, and two were counted, one of them failed.
C11_Witness ==
    /\ Returned
    /\ \A v \in DOMAIN domains : Len(domains[v]) <= 1
    /\ backtrack_count >= 2
    /\ backtrack_failure_count >= 1


\* C12: when every arc is arc-consistent in the dict inference is given,
\* inference(assignment, queue), for the queue of arcs it is given, returns
\* True and leaves every list of the dict as it was.  A state in the while
\* loop of inference is the state of a call with the dict and the queue of
\* that state.
C12_ConsistentInputIsFixedPoint ==
    (pc = "inference" /\ ArcConsistent(assignment)) =>
        LET r == inference_run(assignment, queue)
        IN  /\ r.value = "True"
            /\ r.assignment = assignment

\* inference is in its loop on an arc-consistent dict with two arcs or more
\* to visit, one of them from a variable with two values and with a table
\* that allows some of the pairs and not all.
C12_Witness ==
    /\ pc = "inference"
    /\ ArcConsistent(assignment)
    /\ Len(queue) >= 2
    /\ \E k \in 1 .. Len(queue) :
          LET i == queue[k][1]
              j == queue[k][2]
          IN  /\ Len(assignment[i]) >= 2
              /\ constraints[i].table[j] # {}
              /\ constraints[i].table[j] # get_all_possible_pairs(domains[i], domains[j])
    /\ inference_run(assignment, queue).value = "True"


\* C13: after revise(assignment, i, j), called by an iteration of inference
\* on the arc (i, j) at the head of the queue, has returned with the list of
\* i not empty, every value x left in the list of i has a value y in the
\* list of j with (x, y) in the table of (i, j).
C13_ReviseLeavesOnlySupportedValues ==
    [][(pc = "inference" /\ queue # <<>> /\ HasTable(Head(queue)[1], Head(queue)[2])) =>
          LET i == Head(queue)[1]
              j == Head(queue)[2]
          IN  assignment'[i] # <<>> =>
                \A x \in Range(assignment'[i]) :
                    \E y \in Range(assignment[j]) :
                        <<x, y>> \in constraints[i].table[j]]_vars


\* The dict the running call of inference was given: the forced copy of the
\* activation's assignment in a branch, the copy of the static domains in
\* backtracking_search.
GivenAssignment ==
    IF site = "branch"
    THEN LET top == stack[Len(stack)]
         IN  [top.assignment EXCEPT
                ![top.variable] = <<candidates(top.assignment, top.variable)[top.index]>>]
    ELSE domains

\* C14: inference returns False as soon as a revise on an arc (i, j) leaves
\* the list of i empty, so the iteration that empties a list is the last of
\* the call; and inference returns True only when, the queue drained, no
\* list is empty (read here for the lists that were not empty in the dict
\* the call was given).
C14_EmptyDomainEndsInference ==
    /\ [][(pc = "inference" /\ queue # <<>>
              /\ assignment[Head(queue)[1]] # <<>>
              /\ assignment'[Head(queue)[1]] = <<>>) =>
            inferred' = "False"]_vars
    /\ [][(pc = "inference" /\ inferred' = "True") =>
            \A v \in DOMAIN assignment' :
                GivenAssignment[v] # <<>> => assignment'[v] # <<>>]_vars

\* C15: whenever an iteration of inference, by its revise on the arc (i, j),
\* removes a value x from the list of i, no value y of the list of j at that
\* moment has (x, y) in the table of (i, j); and the iteration removes
\* nothing from the list of any other variable.  So a value with a
\* supporting value is never removed.
C15_OnlyUnsupportedValuesRemoved ==
    [][(pc = "inference" /\ queue # <<>> /\ HasTable(Head(queue)[1], Head(queue)[2])) =>
          LET i == Head(queue)[1]
              j == Head(queue)[2]
          IN  /\ \A x \in Range(assignment[i]) \ Range(assignment'[i]) :
                    ~ \E y \in Range(assignment[j]) :
                          <<x, y>> \in constraints[i].table[j]
              /\ \A v \in DOMAIN assignment \ {i} : assignment'[v] = assignment[v]]_vars

\* A revise has removed a value of i and kept another, on an arc (i, j) whose
\* table is not empty and where j has values left.
C15_Witness ==
    /\ pc = "inference"
    /\ \E a \in TableArcs :
          /\ constraints[a[1]].table[a[2]] # {}
          /\ assignment[a[2]] # <<>>
          /\ assignment[a[1]] # <<>>
          /\ \E x \in Range(GivenAssignment[a[1]]) \ Range(assignment[a[1]]) :
                ~ \E y \in Range(assignment[a[2]]) :
                      <<x, y>> \in constraints[a[1]].table[a[2]]


\* The number of variables with more than one value left in a dict.
Undecided(asg) == Cardinality({v \in DOMAIN asg : Len(asg[v]) > 1})

\* C16: backtracking_search terminates: the call returns; every call of
\* inference comes to an empty queue, and an iteration of its loop appends
\* arcs to the queue only when it has removed a value; and the dict of a
\* recursive call of backtrack has strictly fewer variables with more than
\* one value than the dict of the activation that calls it.
C16_SearchTerminates ==
    /\ <>Returned
    /\ (pc = "inference") ~> (pc = "inference" /\ queue = <<>>)
    /\ [][(pc = "inference" /\ queue # <<>> /\ queue' # Tail(queue)) =>
            Len(assignment'[Head(queue)[1]]) < Len(assignment[Head(queue)[1]])]_vars
    /\ [] ((pc = "backtrack" /\ stack # <<>>) =>
            Undecided(assignment) < Undecided(stack[Len(stack)].assignment))

\* The search has returned after three activations of backtrack or more, one
\* of which returned None, so a for loop went on after a branch that failed.
C16_Witness ==
    /\ Returned
    /\ backtrack_count >= 3
    /\ backtrack_failure_count >= 1
    /\ \A v \in Names : Len(domains[v]) >= 2


\* C17: the assignment an activation of backtrack was given stays as it is
\* for as long as the activation lives: no step of a branch (copy, forced
\* value, inference, the recursive calls under it) changes a list of the
\* assignment of an activation on the stack, so the branch for the next
\* value starts from the lists the branch before it started from.
C17_BranchLeavesCallerAssignment ==
    [][\A k \in DOMAIN stack \cap DOMAIN stack' :
          stack'[k].assignment = stack[k].assignment]_vars

\* A branch has finished and the for loop is at a later value: the dict the
\* branch worked on has lost a value of a variable other than the selected
\* one, and the assignment of the activation still has it.
C17_Witness ==
    /\ pc = "loop"
    /\ stack # <<>>
    /\ LET top == stack[Len(stack)]
       IN  /\ top.index >= 2
           /\ top.index <= Len(candidates(top.assignment, top.variable))
           /\ \E v \in DOMAIN top.assignment \ {top.variable} :
                 Len(assignment[v]) < Len(top.assignment[v])


\* No arc is in the queue twice.
NoDuplicates(q) == \A m, n \in 1 .. Len(q) : q[m] = q[n] => m = n

\* C18: in inference a queue without duplicates stays without duplicates;
\* an iteration takes the arc (i, j) at the head, and when its revise has
\* shortened the list of i (and the call goes on) the queue after it is the
\* rest of the queue followed by exactly the arcs (k, i) with k a neighbor
\* of i, k # j, (k, i) not in the rest, each once; otherwise it is the rest.
C18_QueueIsFifoWithoutDuplicates ==
    /\ [] (pc = "inference" => NoDuplicates(queue))
    /\ [][(pc = "inference" /\ queue # <<>> /\ HasTable(Head(queue)[1], Head(queue)[2])) =>
            LET i       == Head(queue)[1]
                j       == Head(queue)[2]
                rest    == Tail(queue)
                reduced == Len(assignment'[i]) < Len(assignment[i])
                new     == {<<k, i>> : k \in Range(constraints[i].keys) \ {j}}
                               \ Range(rest)
            IN  /\ Len(queue') >= Len(rest)
                /\ SubSeq(queue', 1, Len(rest)) = rest
                /\ LET appended == SubSeq(queue', Len(rest) + 1, Len(queue'))
                   IN  /\ NoDuplicates(appended)
                       /\ Range(appended) = IF reduced /\ pc' = "inference" THEN new ELSE {}]_vars

\* The position of an arc in the list get_all_arcs.
ArcIndex(a) == CHOOSE n \in 1 .. Len(get_all_arcs) : get_all_arcs[n] = a

\* The first inference of a search has appended an arc: the last arc of the
\* queue is behind an arc that comes after it in the list the queue started
\* as, and arcs that were waiting are still before it.
C18_Witness ==
    /\ pc = "inference"
    /\ site = "search"
    /\ Len(queue) >= 3
    /\ ArcIndex(queue[Len(queue)]) < ArcIndex(queue[Len(queue) - 1])
    /\ ArcIndex(queue[1]) < ArcIndex(queue[2])


\* C19: select_unassigned_variable(assignment) returns None exactly when
\* every list of the assignment has at most one value; otherwise it returns
\* a variable whose list has more than one value and is as short as the
\* list of any variable with more than one value.
C19_SelectsSmallestUndecided ==
    pc = "selected" =>
        LET v == result.value
        IN  /\ v = None <=> \A w \in Names : Len(assignment[w]) <= 1
            /\ v # None =>
                  /\ v \in Names
                  /\ Len(assignment[v]) > 1
                  /\ \A w \in Names :
                        Len(assignment[w]) > 1 => Len(assignment[v]) <= Len(assignment[w])

\* The call has returned a variable that is not the first with more than one
\* value in the order of the dict: a shorter list came later.
C19_Witness ==
    /\ pc = "selected"
    /\ result.value # None
    /\ \E w \in Names :
          /\ Len(assignment[w]) > Len(assignment[result.value])
          /\ \E m, n \in 1 .. Len(variables) :
                m < n /\ variables[m] = w /\ variables[n] = result.value

====
